---- MODULE Spec2Model ----
(***************************************************************************)
(* Leader detection heuristics of smart-Strategy.                          *)
(*                                                                         *)
(*   smart_money_detector.py   streaming co-occurrence group detector      *)
(*   strategy2.py              streaming fast-sell detector                *)
(*   clickhouseDB/killFollowStrategy.py   batch round-trip detector        *)
(*   clickhouseDB/sequenceStrategy.py     batch sequence cluster detector  *)
(*                                                                         *)
(* Time is in whole seconds.  Wallet and token addresses are short         *)
(* strings.  The amount and market fields of a BuyEvent are never read by  *)
(* prune_old_events, find_groups or analyze_group and are left out.        *)
(***************************************************************************)
EXTENDS Integers, Sequences, FiniteSets, TLC

(***************************************************************************)
(* Program constants of smart_money_detector.py                            *)
(***************************************************************************)
TIME_WINDOW_SECONDS == 30
MIN_GROUP_SIZE == 3
MIN_GROUP_SIGHTINGS == 2
HISTORY_MINUTES == 10
LEADER_LOG_COOLDOWN_SECONDS == 300

(***************************************************************************)
(* Bounds of the model                                                     *)
(***************************************************************************)
MaxEvents == 4
MaxVoteEvents == 7
MaxCoolTxs == 3
MaxRcTxs == 2
MaxRcTrades == 2
MaxSubscribes == 2
MaxFsEvents == 3
MaxCacheEvents == 4
MaxKfRows == 4
MaxSeqRows == 3
MaxLeadRows == 5
MaxOrderRows == 6
MaxShapeRows == 4

Wallets == {"A", "B", "C"}
Tokens == {"T1", "T2"}
\* clock advance between two buys: same transaction or same instant (0), the
\* edge of the grouping window (30), the edge of the cooldown (300); sums
\* reach the edge of the history horizon (600) and go beyond each of them
Deltas == {0, 30, 300}
\* the voting runs are longer; there the buys arrive one every ten seconds
VoteDeltas == {10}

\* fast-sell detector: clock advances around the 30 s window and the horizon
FsWallets == {"A", "B"}
FsDeltas == {0, 30, 31, 600}
\* what the Dexscreener lookup can do: fail in one of these ways ...
FetchFailures == {"http_error", "timeout", "no_pairs", "no_fdv", "parse_error"}
\* ... or deliver the fdv of the first pair
Fdvs == {400000, 500000, 600000}
FetchOutcomes == [ok : {FALSE}, why : FetchFailures, fdv : {0}]
                    \cup [ok : {TRUE}, why : {"ok"}, fdv : Fdvs]
NotFetched == [ok |-> FALSE, why |-> "not_called", fdv |-> 0]

\* batch strategies: addresses in their string order, timestamps around the
\* 30 s holding ceiling and around the 10 s cluster window
AddressOrder == <<"A", "B", "C", "T1", "T2">>
KfWallets == {"A", "B"}
KfTimes == {0, 1, 30, 31}
TxTypes == {"buy", "sell"}
SeqTimes == {0, 10, 11}
Amounts == {1, 2}

None == "None"

(***************************************************************************)
(* Program constants of strategy2.py and of the batch strategies           *)
(***************************************************************************)
FS_TIME_WINDOW_SECONDS == 30
FS_HISTORY_MINUTES == 10
MARKET_CAP_THRESHOLD == 500000
max_hold_time_sec == 30
time_window_sec == 10

VARIABLES
    now,                 \* datetime.now(timezone.utc) as last read by run()
    recent_buys,         \* deque of BuyEvent
    group_sightings,     \* frozenset of wallets -> list of token mints
    group_first_buyer,   \* frozenset of wallets -> list of wallets
    last_logged_leader,  \* wallet -> time of its last alert, or None
    alerts,              \* the "Potential Leader" warnings logged so far
    step,                \* what the last processed buy did
    n_events             \* number of buys (of transactions, where a step
                         \* is a whole transaction) processed

VARIABLES
    fs_now,              \* strategy2: datetime.now(timezone.utc) as last read
    recent_events,       \* strategy2: deque of BuySellEvent
    buyer_histories,     \* strategy2: wallet -> list of BuySellEvent
    token_market_caps,   \* strategy2: mint -> cached market cap
    fs_alerts,           \* strategy2: the "Fast Sell Detected" warnings
    fs_step,             \* strategy2: what the last processed trade did
    fs_n,                \* strategy2: number of trades processed
    fetch_log            \* strategy2: mint -> the values fetch_market_cap
                         \* returned for it, one per call

VARIABLES
    kf_rows,             \* KillFollowStrategy: rows of the query, in its order
    kf_pc,               \* "query" while rows arrive, "done" after detect_leader
    kf_suspicious,       \* suspicious: trader -> list of mints, one per match
    kf_result            \* the dict detect_leader returns: trader -> set of mints

VARIABLES
    seq_rows,            \* SequenceStrategy: rows of fetch_buy_events, any order
    seq_pc,              \* "fetch" while rows arrive, then "clustered"
    combo_tracker,       \* retained clusters in the order find_clusters appends
                         \* them: [traders (the key), mint, cluster]
    leader_candidates    \* what detect_following_patterns returns: the records
                         \* [leader, mints, participants, sequences] in order

VARIABLES
    conn,                \* smart_money_detector run(): where its loop stands
                         \* [status, subscribes, seen]
    fs_conn              \* strategy2 run(): the same

stream_vars == <<now, recent_buys, group_sightings, group_first_buyer,
                 last_logged_leader, alerts, step, n_events>>

fs_vars == <<fs_now, recent_events, buyer_histories, token_market_caps,
             fs_alerts, fs_step, fs_n, fetch_log>>

kf_vars == <<kf_rows, kf_pc, kf_suspicious, kf_result>>

seq_vars == <<seq_rows, seq_pc, combo_tracker, leader_candidates>>

conn_vars == <<conn, fs_conn>>

vars == <<stream_vars, fs_vars, kf_vars, seq_vars, conn_vars>>

Range(s) == {s[i] : i \in DOMAIN s}

\* a dict is a function on its keys; {} is the function with no keys
EmptyDict == <<>>

\* defaultdict(list)[k]
ListAt(d, k) == IF k \in DOMAIN d THEN d[k] ELSE <<>>

\* d[k] = v
DictSet(d, k, v) == [x \in DOMAIN d \cup {k} |-> IF x = k THEN v ELSE d[x]]

BuyEvent(ts, buyer, mint) == [timestamp |-> ts, buyer |-> buyer, token_mint |-> mint]

(***************************************************************************)
(* prune_old_events: pop from the left while the head is older than the    *)
(* cutoff.  Returns what stays in the deque.                               *)
(***************************************************************************)
\* as prune_old_events, popping also the event that lies exactly on the cutoff
RECURSIVE prune_old_events_le(_, _)
prune_old_events_le(buf, t) ==
    LET cutoff == t - HISTORY_MINUTES * 60
    IN  IF buf # <<>> /\ Head(buf).timestamp <= cutoff
        THEN prune_old_events_le(Tail(buf), t)
        ELSE buf

RECURSIVE prune_old_events(_, _)
prune_old_events(buf, t) ==
    LET cutoff == t - HISTORY_MINUTES * 60
    IN  IF buf # <<>> /\ Head(buf).timestamp < cutoff
        THEN prune_old_events(Tail(buf), t)
        ELSE buf

(***************************************************************************)
(* find_groups, the scan: walk the deque from the newest event backward,   *)
(* break at the first event older than window_start, collect the buyer of  *)
(* every event on the new event's token by another wallet.  `matched` is a *)
(* list: a wallet is appended once per matching event.                     *)
(***************************************************************************)
\* as scan_recent, without the comparison of the token mints
RECURSIVE scan_recent_any_token(_, _, _, _, _)
scan_recent_any_token(buf, i, window_start, new_event, matched) ==
    IF i = 0 THEN matched
    ELSE IF buf[i].timestamp < window_start THEN matched
    ELSE scan_recent_any_token(buf, i - 1, window_start, new_event,
            IF buf[i].buyer # new_event.buyer
            THEN Append(matched, buf[i].buyer)
            ELSE matched)

RECURSIVE scan_recent(_, _, _, _, _)
scan_recent(buf, i, window_start, new_event, matched) ==
    IF i = 0 THEN matched
    ELSE IF buf[i].timestamp < window_start THEN matched
    ELSE scan_recent(buf, i - 1, window_start, new_event,
            IF buf[i].token_mint = new_event.token_mint /\ buf[i].buyer # new_event.buyer
            THEN Append(matched, buf[i].buyer)
            ELSE matched)

find_matched(buf, t, new_event) ==
    scan_recent(buf, Len(buf), t - TIME_WINDOW_SECONDS, new_event, <<>>)

\* the test of line 116
forms_group(matched) == Len(matched) >= MIN_GROUP_SIZE - 1

\* frozenset(matched + [new_event.buyer])
group_of(matched, new_event) == Range(matched) \cup {new_event.buyer}

\* as first_buyer_of, voting for the earliest buyer found in the window
first_buyer_earliest(matched, new_event) == matched[Len(matched)]

\* the vote recorded for a sighting: the current event's wallet
first_buyer_of(matched, new_event) == new_event.buyer

(***************************************************************************)
(* analyze_group                                                           *)
(***************************************************************************)
\* buyer_count[w]: defaultdict(int) filled from the group's first-buyer list
buyer_count(votes, w) == Cardinality({i \in DOMAIN votes : votes[i] = w})

\* keys of buyer_count in insertion order = order of first appearance
first_index(votes, w) == CHOOSE i \in DOMAIN votes :
                            votes[i] = w /\ \A j \in 1..(i - 1) : votes[j] # w

\* max(buyer_count.items(), key=lambda x: x[1]): the first key, in insertion
\* order, among those with the largest count
max_leader(votes) ==
    CHOOSE w \in Range(votes) :
        /\ \A u \in Range(votes) : buyer_count(votes, u) <= buyer_count(votes, w)
        /\ \A u \in Range(votes) :
              buyer_count(votes, u) = buyer_count(votes, w)
                 => first_index(votes, w) <= first_index(votes, u)

\* as enough_sightings, counting the sightings and not their tokens
enough_sightings_len(sightings) == Len(sightings) >= MIN_GROUP_SIGHTINGS

\* as enough_sightings, asking for more than MIN_GROUP_SIGHTINGS tokens
enough_sightings_gt(sightings) == Cardinality(Range(sightings)) > MIN_GROUP_SIGHTINGS

enough_sightings(sightings) == Cardinality(Range(sightings)) >= MIN_GROUP_SIGHTINGS

\* as has_majority, promoting whoever max() returns
has_majority_plurality(v, total) == v > 0

\* as has_majority, promoting on half of the votes
has_majority_ge(v, total) == 2 * v >= total

\* votes > total_votes / 2 (true division)
has_majority(v, total) == 2 * v > total

\* as cooldown_elapsed, letting the alert through at exactly the cooldown
cooldown_elapsed_ge(gate, leader, t) ==
    leader \notin DOMAIN gate \/ t - gate[leader] >= LEADER_LOG_COOLDOWN_SECONDS

\* as cooldown_elapsed, with the comparison turned round
cooldown_elapsed_lt(gate, leader, t) ==
    leader \notin DOMAIN gate \/ t - gate[leader] < LEADER_LOG_COOLDOWN_SECONDS

\* last_log = last_logged_leader.get(leader);
\* not last_log or (now - last_log).total_seconds() > LEADER_LOG_COOLDOWN_SECONDS
cooldown_elapsed(gate, leader, t) ==
    leader \notin DOMAIN gate \/ t - gate[leader] > LEADER_LOG_COOLDOWN_SECONDS

\* outcome of analyze_group(group) on the histories as find_groups left them
analyze_outcome(sightings, votes, gate, t) ==
    IF ~enough_sightings(sightings) THEN "few_sightings"
    ELSE LET leader == max_leader(votes)
         IN  IF ~has_majority(buyer_count(votes, leader), Len(votes)) THEN "no_majority"
             ELSE IF ~cooldown_elapsed(gate, leader, t) THEN "suppressed"
             ELSE "alert"

NoStep == [kind |-> "none"]

StreamInit ==
    /\ now = 0
    /\ recent_buys = <<>>
    /\ group_sightings = EmptyDict
    /\ group_first_buyer = EmptyDict
    /\ last_logged_leader = EmptyDict
    /\ alerts = <<>>
    /\ step = NoStep
    /\ n_events = 0

\* as append_event, putting the event at the head of the deque
append_event_left(buf, event) == <<event>> \o buf

\* recent_buys.append(event)
append_event(buf, event) == Append(buf, event)

\* as stamp_gate, writing the stamp whenever the vote passes, suppressed
\* or not
stamp_gate_always(gate, outcome, leader, t) ==
    IF outcome \in {"alert", "suppressed"} THEN DictSet(gate, leader, t) ELSE gate

\* last_logged_leader[leader] = now, inside the branch that logs the alert
stamp_gate(gate, outcome, leader, t) ==
    IF outcome = "alert" THEN DictSet(gate, leader, t) ELSE gate

\* the module-level stores of smart_money_detector.py, with the log and
\* the record of the last buy
Stores == [recent_buys |-> recent_buys, group_sightings |-> group_sightings,
           group_first_buyer |-> group_first_buyer,
           last_logged_leader |-> last_logged_leader,
           alerts |-> alerts, step |-> step]

(***************************************************************************)
(* run(), body of `for buyer, mint, amount in buys`, as a function of the  *)
(* stores S and of the clock reading t: append, prune, find_groups and,    *)
(* when a group forms, analyze_group.  The second clock reading, inside    *)
(* analyze_group, falls in the same second as the one of run().            *)
(***************************************************************************)
buy_effect(S, t, buyer, mint) ==
    LET event    == BuyEvent(t, buyer, mint)
        appended == append_event(S.recent_buys, event)
        kept     == prune_old_events(appended, t)
        pruned   == SubSeq(appended, 1, Len(appended) - Len(kept))
        matched  == find_matched(kept, t, event)
        group    == group_of(matched, event)
        sight    == Append(ListAt(S.group_sightings, group), mint)
        votes    == Append(ListAt(S.group_first_buyer, group), first_buyer_of(matched, event))
        outcome  == analyze_outcome(sight, votes, S.last_logged_leader, t)
        leader   == max_leader(votes)
    IN  IF forms_group(matched)
        THEN [recent_buys |-> kept,
              group_sightings |-> DictSet(S.group_sightings, group, sight),
              group_first_buyer |-> DictSet(S.group_first_buyer, group, votes),
              last_logged_leader |-> stamp_gate(S.last_logged_leader, outcome, leader, t),
              alerts |-> IF outcome = "alert"
                         THEN Append(S.alerts,
                                [leader |-> leader, group |-> group,
                                 tokens_seen |-> Cardinality(Range(sight)),
                                 votes |-> buyer_count(votes, leader),
                                 total_votes |-> Len(votes), at |-> t])
                         ELSE S.alerts,
              step |-> [kind |-> "group", event |-> event, pruned |-> pruned,
                        matched |-> matched, group |-> group,
                        outcome |-> outcome,
                        leader |-> IF outcome = "few_sightings" THEN None ELSE leader]]
        ELSE [S EXCEPT !.recent_buys = kept,
                       !.step = [kind |-> "nogroup", event |-> event,
                                 pruned |-> pruned, matched |-> matched]]

\* one buy: the clock has moved on by d since the previous buy (0 inside
\* one transaction)
ProcessBuy(d, buyer, mint) ==
    LET S == buy_effect(Stores, now + d, buyer, mint)
    IN  /\ conn.status = "streaming"
        /\ UNCHANGED <<fs_vars, kf_vars, seq_vars, conn_vars>>
        /\ now' = now + d
        /\ n_events' = n_events + 1
        /\ recent_buys' = S.recent_buys
        /\ group_sightings' = S.group_sightings
        /\ group_first_buyer' = S.group_first_buyer
        /\ last_logged_leader' = S.last_logged_leader
        /\ alerts' = S.alerts
        /\ step' = S.step

\* detect_buyers walks a dict of dicts: one transaction (one clock reading)
\* yields each (owner, mint) pair at most once
fresh_in_tx(d, buyer, mint) ==
    d = 0 => \A i \in DOMAIN recent_buys :
                ~(/\ recent_buys[i].timestamp = now
                  /\ recent_buys[i].buyer = buyer
                  /\ recent_buys[i].token_mint = mint)

StreamBuy ==
    /\ n_events < MaxEvents
    /\ \E d \in Deltas, buyer \in Wallets, mint \in Tokens :
          fresh_in_tx(d, buyer, mint) /\ ProcessBuy(d, buyer, mint)

(***************************************************************************)
(* strategy2.py, the fast-sell detector                                    *)
(***************************************************************************)
BuySellEvent(ts, buyer, mint, is_sell) ==
    [timestamp |-> ts, buyer |-> buyer, mint |-> mint, is_sell |-> is_sell]

\* fetch_market_cap: every failure path returns 0, success returns float(fdv)
fetch_market_cap(outcome) == IF outcome.ok THEN outcome.fdv ELSE 0

RECURSIVE fs_prune_old_events(_, _)
fs_prune_old_events(buf, t) ==
    LET cutoff == t - FS_HISTORY_MINUTES * 60
    IN  IF buf # <<>> /\ Head(buf).timestamp < cutoff
        THEN fs_prune_old_events(Tail(buf), t)
        ELSE buf

\* relevant_events = [e for e in history if e[2] == mint]
relevant_events(history, mint) == SelectSeq(history, LAMBDA e : e.mint = mint)

\* 0 < time_diff <= TIME_WINDOW_SECONDS, for a past buy and a sell event
is_fast_sell(past_event, event) ==
    /\ past_event.is_sell = FALSE /\ event.is_sell = TRUE
    /\ 0 < event.timestamp - past_event.timestamp
    /\ event.timestamp - past_event.timestamp <= FS_TIME_WINDOW_SECONDS

\* the loop of analyze_fast_traders runs to its first fast-sell pair and
\* breaks there: index of that past event, 0 when the loop runs out
RECURSIVE first_fast_sell(_, _, _)
first_fast_sell(relevant, k, event) ==
    IF k > Len(relevant) THEN 0
    ELSE IF is_fast_sell(relevant[k], event) THEN k
    ELSE first_fast_sell(relevant, k + 1, event)

\* as cached_cap, never finding the mint in the cache
cached_cap_miss(caps, mint) == 0

\* token_market_caps.get(mint, 0)
cached_cap(caps, mint) == IF mint \in DOMAIN caps THEN caps[mint] ELSE 0

\* as passes_cap_filter, leaving out a token exactly at the ceiling
passes_cap_filter_lt(cap) == cap < MARKET_CAP_THRESHOLD

\* cap <= MARKET_CAP_THRESHOLD
passes_cap_filter(cap) == cap <= MARKET_CAP_THRESHOLD

FsInit ==
    /\ fs_now = 0
    /\ recent_events = <<>>
    /\ buyer_histories = EmptyDict
    /\ token_market_caps = EmptyDict
    /\ fs_alerts = <<>>
    /\ fs_step = NoStep
    /\ fs_n = 0
    /\ fetch_log = EmptyDict

(***************************************************************************)
(* run() of strategy2, body of `for buyer, mint, amount, is_sell in        *)
(* buys_sells`: append, prune, record in the wallet's history and, for a   *)
(* sell, analyze_fast_traders.  `outcome` is what the market-cap lookup    *)
(* does if this step calls it.                                             *)
(***************************************************************************)
ProcessTrade(d, buyer, mint, is_sell, outcome) ==
    LET t        == fs_now + d
        event    == BuySellEvent(t, buyer, mint, is_sell)
        appended == Append(recent_events, event)
        kept     == fs_prune_old_events(appended, t)
        history  == Append(ListAt(buyer_histories, buyer), event)
        relevant == relevant_events(history, mint)
        k        == IF Len(relevant) < 2 THEN 0 ELSE first_fast_sell(relevant, 1, event)
        cached   == cached_cap(token_market_caps, mint)
        fetched  == cached = 0
        cap      == IF fetched THEN fetch_market_cap(outcome) ELSE cached
    IN  /\ fs_conn.status = "streaming"
        /\ UNCHANGED <<stream_vars, kf_vars, seq_vars, conn_vars>>
        /\ fs_now' = t
        /\ recent_events' = kept
        /\ buyer_histories' = DictSet(buyer_histories, buyer, history)
        /\ fs_n' = fs_n + 1
        /\ IF is_sell /\ k > 0
           THEN /\ token_market_caps' =
                      IF fetched THEN DictSet(token_market_caps, mint, cap)
                      ELSE token_market_caps
                /\ fetch_log' =
                      IF fetched
                      THEN DictSet(fetch_log, mint, Append(ListAt(fetch_log, mint), cap))
                      ELSE fetch_log
                /\ fs_alerts' =
                      IF passes_cap_filter(cap)
                      THEN Append(fs_alerts, [buyer |-> buyer, mint |-> mint,
                                              time_diff |-> t - relevant[k].timestamp,
                                              cap |-> cap, at |-> t])
                      ELSE fs_alerts
                /\ fs_step' = [kind |-> "matched", event |-> event,
                               pruned |-> SubSeq(appended, 1, Len(appended) - Len(kept)),
                               fetch |-> IF fetched THEN outcome ELSE NotFetched,
                               cap |-> cap,
                               alerted |-> passes_cap_filter(cap)]
           ELSE /\ UNCHANGED <<token_market_caps, fs_alerts, fetch_log>>
                /\ fs_step' = [kind |-> "nomatch", event |-> event,
                               pruned |-> SubSeq(appended, 1, Len(appended) - Len(kept)),
                               fetch |-> NotFetched, alerted |-> FALSE]

\* detect_buys_sells yields each (owner, mint) once per transaction
fs_fresh_in_tx(d, buyer, mint) ==
    d = 0 => \A i \in DOMAIN recent_events :
                ~(/\ recent_events[i].timestamp = fs_now
                  /\ recent_events[i].buyer = buyer
                  /\ recent_events[i].mint = mint)

\* whether the trade reaches the call of fetch_market_cap: a sell that
\* finds its buy inside the window while the cache has no value for the mint
calls_fetch(d, buyer, mint, is_sell) ==
    LET event    == BuySellEvent(fs_now + d, buyer, mint, is_sell)
        relevant == relevant_events(Append(ListAt(buyer_histories, buyer), event), mint)
    IN  /\ is_sell
        /\ Len(relevant) >= 2
        /\ first_fast_sell(relevant, 1, event) > 0
        /\ cached_cap(token_market_caps, mint) = 0

\* the outcomes the lookup can have in this step: none when it is not called
outcomes_of(d, buyer, mint, is_sell, outcomes) ==
    IF calls_fetch(d, buyer, mint, is_sell) THEN outcomes ELSE {NotFetched}

FsTrade ==
    /\ fs_n < MaxFsEvents
    /\ \E d \in FsDeltas, buyer \in FsWallets, mint \in Tokens, is_sell \in BOOLEAN :
          /\ fs_fresh_in_tx(d, buyer, mint)
          /\ \E outcome \in outcomes_of(d, buyer, mint, is_sell, FetchOutcomes) :
                ProcessTrade(d, buyer, mint, is_sell, outcome)

(***************************************************************************)
(* clickhouseDB/killFollowStrategy.py                                      *)
(***************************************************************************)
\* position of an address in string order
Ord(a) == CHOOSE i \in DOMAIN AddressOrder : AddressOrder[i] = a

\* order of the tuples (ts, tx_type) under list.sort(): 'buy' < 'sell'
TypeOrd(ty) == IF ty = "buy" THEN 0 ELSE 1
action_le(x, y) ==
    \/ x.ts < y.ts
    \/ x.ts = y.ts /\ TypeOrd(x.tx_type) <= TypeOrd(y.tx_type)

RECURSIVE insert_action(_, _)
insert_action(sorted, x) ==
    IF sorted = <<>> THEN <<x>>
    ELSE IF action_le(Head(sorted), x)
         THEN <<Head(sorted)>> \o insert_action(Tail(sorted), x)
         ELSE <<x>> \o sorted

\* actions.sort()
RECURSIVE sort_actions(_)
sort_actions(actions) ==
    IF actions = <<>> THEN <<>>
    ELSE insert_action(sort_actions(SubSeq(actions, 1, Len(actions) - 1)),
                       actions[Len(actions)])

\* keys of a dict filled row by row, in insertion order
RECURSIVE first_seen(_, _)
first_seen(keys, acc) ==
    IF keys = <<>> THEN acc
    ELSE first_seen(Tail(keys),
                    IF Head(keys) \in Range(acc) THEN acc ELSE Append(acc, Head(keys)))

\* trades[trader][mint]: the (ts, tx_type) of the trader's rows on the mint
trades(rows, trader, mint) ==
    LET mine == SelectSeq(rows, LAMBDA r : r.trader = trader /\ r.mint = mint)
    IN  [i \in DOMAIN mine |-> [ts |-> mine[i].ts, tx_type |-> mine[i].tx_type]]

\* as within_hold, accepting a sell at the very time of the buy
within_hold_ge0(ts_i, ts_j) == 0 <= ts_j - ts_i /\ ts_j - ts_i <= max_hold_time_sec

\* 0 < delta <= self.max_hold_time_sec
within_hold(ts_i, ts_j) == 0 < ts_j - ts_i /\ ts_j - ts_i <= max_hold_time_sec

\* inner loop over j: TRUE when it reaches a sell within the holding time
\* (and breaks), FALSE when it runs out
RECURSIVE has_quick_sell(_, _, _)
has_quick_sell(actions, i, j) ==
    IF j > Len(actions) THEN FALSE
    ELSE IF actions[j].tx_type # "sell" THEN has_quick_sell(actions, i, j + 1)
    ELSE IF within_hold(actions[i].ts, actions[j].ts) THEN TRUE
    ELSE has_quick_sell(actions, i, j + 1)

\* outer loop over i: what one (trader, mint) appends to suspicious[trader]
RECURSIVE mint_matches(_, _, _)
mint_matches(actions, i, mint) ==
    IF i > Len(actions) THEN <<>>
    ELSE (IF actions[i].tx_type = "buy" /\ has_quick_sell(actions, i, i + 1)
          THEN <<mint>> ELSE <<>>) \o mint_matches(actions, i + 1, mint)

\* the loop over mint_dict.items() of one trader
RECURSIVE trader_matches(_, _, _)
trader_matches(rows, trader, mints) ==
    IF mints = <<>> THEN <<>>
    ELSE mint_matches(sort_actions(trades(rows, trader, Head(mints))), 1, Head(mints))
            \o trader_matches(rows, trader, Tail(mints))

\* mints of a trader in the insertion order of trades[trader]
mints_of(rows, trader) ==
    LET mine == SelectSeq(rows, LAMBDA r : r.trader = trader)
    IN  first_seen([i \in DOMAIN mine |-> mine[i].mint], <<>>)

\* suspicious after the loops: a key exists only for a trader with a match
suspicious_of(rows) ==
    LET traders == {rows[i].trader : i \in DOMAIN rows}
        found   == [tr \in traders |-> trader_matches(rows, tr, mints_of(rows, tr))]
    IN  [tr \in {x \in traders : found[x] # <<>>} |-> found[tr]]

\* len(set(tokens)) >= 2
reported(tokens) == Cardinality(Range(tokens)) >= 2

\* {addr: list(set(tokens)) for addr, tokens in suspicious.items() if ...}
leaders_of(suspicious) ==
    [tr \in {x \in DOMAIN suspicious : reported(suspicious[x])} |-> Range(suspicious[tr])]

KfInit ==
    /\ kf_rows = <<>>
    /\ kf_pc = "query"
    /\ kf_suspicious = EmptyDict
    /\ kf_result = EmptyDict

\* ORDER BY traderPublicKey, mint, ts
kf_order_le(r1, r2) ==
    \/ Ord(r1.trader) < Ord(r2.trader)
    \/ /\ r1.trader = r2.trader
       /\ \/ Ord(r1.mint) < Ord(r2.mint)
          \/ r1.mint = r2.mint /\ r1.ts <= r2.ts

\* self.client.execute(query) delivers one more row
KfRow ==
    /\ kf_pc = "query"
    /\ Len(kf_rows) < MaxKfRows
    /\ \E ts \in KfTimes, mint \in Tokens, trader \in KfWallets, tx_type \in TxTypes :
          LET row == [ts |-> ts, mint |-> mint, trader |-> trader, tx_type |-> tx_type]
          IN  /\ kf_rows # <<>> => kf_order_le(kf_rows[Len(kf_rows)], row)
              /\ kf_rows' = Append(kf_rows, row)
    /\ UNCHANGED <<kf_pc, kf_suspicious, kf_result>>
    /\ UNCHANGED <<stream_vars, fs_vars, seq_vars, conn_vars>>

\* KillFollowStrategy.detect_leader on the rows delivered
KfDetect ==
    /\ kf_pc = "query"
    /\ kf_pc' = "done"
    /\ kf_suspicious' = suspicious_of(kf_rows)
    /\ kf_result' = leaders_of(suspicious_of(kf_rows))
    /\ UNCHANGED kf_rows
    /\ UNCHANGED <<stream_vars, fs_vars, seq_vars, conn_vars>>

(***************************************************************************)
(* clickhouseDB/sequenceStrategy.py                                        *)
(***************************************************************************)
\* order of the tuples (ts, trader, amount) under list.sort()
event_le(x, y) ==
    \/ x.ts < y.ts
    \/ /\ x.ts = y.ts
       /\ \/ Ord(x.trader) < Ord(y.trader)
          \/ x.trader = y.trader /\ x.amount <= y.amount

RECURSIVE insert_event(_, _)
insert_event(sorted, x) ==
    IF sorted = <<>> THEN <<x>>
    ELSE IF event_le(Head(sorted), x)
         THEN <<Head(sorted)>> \o insert_event(Tail(sorted), x)
         ELSE <<x>> \o sorted

\* events.sort()
RECURSIVE sort_events(_)
sort_events(events) ==
    IF events = <<>> THEN <<>>
    ELSE insert_event(sort_events(SubSeq(events, 1, Len(events) - 1)),
                      events[Len(events)])

\* mint_clusters[mint]: the (ts, trader, amount) of the rows on the mint
mint_events(rows, mint) ==
    LET mine == SelectSeq(rows, LAMBDA r : r.mint = mint)
    IN  [i \in DOMAIN mine |->
            [ts |-> mine[i].ts, trader |-> mine[i].trader, amount |-> mine[i].amount]]

\* as in_cluster_window, closing the window just before its last second
in_cluster_window_lt(ts1, ts2) == ts2 - ts1 < time_window_sec

\* (ts2 - ts1).total_seconds() <= time_window_sec
in_cluster_window(ts1, ts2) == ts2 - ts1 <= time_window_sec

\* inner loop over j for the seed events[i]: inside the window an event
\* joins when its amount differs from the seed's; the first event beyond
\* the window ends the loop
RECURSIVE grow_cluster(_, _, _, _)
grow_cluster(events, i, j, cluster) ==
    IF j > Len(events) THEN cluster
    ELSE IF in_cluster_window(events[i].ts, events[j].ts)
         THEN grow_cluster(events, i, j + 1,
                 IF events[i].amount # events[j].amount
                 THEN Append(cluster, events[j]) ELSE cluster)
         ELSE cluster

cluster_at(events, i) == grow_cluster(events, i, i + 1, <<events[i]>>)

\* len(cluster) >= 3
retained(cluster) == Len(cluster) >= 3

RECURSIVE insert_trader(_, _)
insert_trader(sorted, x) ==
    IF sorted = <<>> THEN <<x>>
    ELSE IF Ord(Head(sorted)) <= Ord(x)
         THEN <<Head(sorted)>> \o insert_trader(Tail(sorted), x)
         ELSE <<x>> \o sorted

\* tuple(sorted([x[1] for x in cluster]))
RECURSIVE traders_key(_)
traders_key(cluster) ==
    IF cluster = <<>> THEN <<>>
    ELSE insert_trader(traders_key(SubSeq(cluster, 1, Len(cluster) - 1)),
                       cluster[Len(cluster)].trader)

\* outer loop over i for one mint
RECURSIVE mint_combos(_, _, _)
mint_combos(events, i, mint) ==
    IF i > Len(events) THEN <<>>
    ELSE (IF retained(cluster_at(events, i))
          THEN <<[traders |-> traders_key(cluster_at(events, i)), mint |-> mint,
                  cluster |-> cluster_at(events, i)]>>
          ELSE <<>>) \o mint_combos(events, i + 1, mint)

\* loop over mint_clusters.items(), in insertion order of the mints
RECURSIVE all_combos(_, _)
all_combos(rows, mints) ==
    IF mints = <<>> THEN <<>>
    ELSE mint_combos(sort_events(mint_events(rows, Head(mints))), 1, Head(mints))
            \o all_combos(rows, Tail(mints))

find_clusters(rows) ==
    all_combos(rows, first_seen([i \in DOMAIN rows |-> rows[i].mint], <<>>))

(***************************************************************************)
(* detect_following_patterns                                               *)
(***************************************************************************)
\* combo_tracker[combo]: the (mint, cluster) entries of one key, in the
\* order they were appended
clusters_of(combos, key) == SelectSeq(combos, LAMBDA c : c.traders = key)

\* tuple(x[1][i][1] for i in range(len(x[1]))): the wallets of a cluster in
\* cluster order
sequence_of(cluster) == [i \in DOMAIN cluster |-> cluster[i].trader]

\* len(mint_clusters) < 2: continue
enough_clusters(entries) == Len(entries) >= 2

\* as sequences_differ, reporting also when all sequences are the same
sequences_differ_any(seqs) == Cardinality(Range(seqs)) >= 1

\* len(set(seqs)) > 1
sequences_differ(seqs) == Cardinality(Range(seqs)) > 1

\* Counter(firsts).most_common(1)[0][0]: the largest count, and among equal
\* counts the wallet met first in firsts
most_common(firsts) ==
    LET count(w) == Cardinality({i \in DOMAIN firsts : firsts[i] = w})
        first(w) == CHOOSE i \in DOMAIN firsts :
                       firsts[i] = w /\ \A j \in 1..(i - 1) : firsts[j] # w
    IN  CHOOSE w \in Range(firsts) :
            \A u \in Range(firsts) :
                \/ count(u) < count(w)
                \/ count(u) = count(w) /\ first(w) <= first(u)

\* loop over combo_tracker.items(), keys in insertion order; each record
\* appended to leader_candidates[common_first] is kept with its leader
RECURSIVE following_patterns(_, _)
following_patterns(combos, keys) ==
    IF keys = <<>> THEN <<>>
    ELSE LET entries == clusters_of(combos, Head(keys))
             seqs    == [i \in DOMAIN entries |-> sequence_of(entries[i].cluster)]
             firsts  == [i \in DOMAIN seqs |-> seqs[i][1]]
         IN  (IF enough_clusters(entries) /\ sequences_differ(seqs)
              THEN <<[leader |-> most_common(firsts),
                      mints |-> [i \in DOMAIN entries |-> entries[i].mint],
                      participants |-> Head(keys),
                      sequences |-> seqs]>>
              ELSE <<>>) \o following_patterns(combos, Tail(keys))

detect_following_patterns(combos) ==
    following_patterns(combos,
        first_seen([i \in DOMAIN combos |-> combos[i].traders], <<>>))

\* the keys of the dict detect_leader returns
leaders_found(rows) ==
    LET found == detect_following_patterns(find_clusters(rows))
    IN  {found[i].leader : i \in DOMAIN found}

SeqInit ==
    /\ seq_rows = <<>>
    /\ seq_pc = "fetch"
    /\ combo_tracker = <<>>
    /\ leader_candidates = <<>>

\* fetch_buy_events delivers one more row
SeqRow ==
    /\ seq_pc = "fetch"
    /\ Len(seq_rows) < MaxSeqRows
    /\ \E ts \in SeqTimes, mint \in Tokens, trader \in Wallets, amount \in Amounts :
          seq_rows' = Append(seq_rows,
                [ts |-> ts, mint |-> mint, trader |-> trader, amount |-> amount])
    /\ UNCHANGED <<seq_pc, combo_tracker, leader_candidates>>
    /\ UNCHANGED <<stream_vars, fs_vars, kf_vars, conn_vars>>

\* combos = self.find_clusters(rows)
SeqFindClusters ==
    /\ seq_pc = "fetch"
    /\ seq_pc' = "clustered"
    /\ combo_tracker' = find_clusters(seq_rows)
    /\ UNCHANGED <<seq_rows, leader_candidates>>
    /\ UNCHANGED <<stream_vars, fs_vars, kf_vars, conn_vars>>

\* both run() loops have subscribed once and are reading their stream
ConnInit ==
    /\ conn = [status |-> "streaming", subscribes |-> 1, seen |-> 0]
    /\ fs_conn = [status |-> "streaming", subscribes |-> 1, seen |-> 0]

LeadTimes == {0, 10}

\* one more row of a result in which every wallet buys a token at most
\* once, in the same order
OrderRow ==
    /\ seq_pc = "fetch"
    /\ Len(seq_rows) < MaxOrderRows
    /\ \A i, j \in DOMAIN seq_rows :
          (seq_rows[i].mint = seq_rows[j].mint /\ seq_rows[i].trader = seq_rows[j].trader)
             => i = j
    /\ \E ts \in LeadTimes, mint \in Tokens, trader \in Wallets, amount \in Amounts :
          LET row == [ts |-> ts, mint |-> mint, trader |-> trader, amount |-> amount]
          IN  /\ \A i \in DOMAIN seq_rows :
                    ~(seq_rows[i].mint = mint /\ seq_rows[i].trader = trader)
              /\ seq_rows # <<>> => event_le(seq_rows[Len(seq_rows)], row)
              /\ seq_rows' = Append(seq_rows, row)
    /\ UNCHANGED <<seq_pc, combo_tracker, leader_candidates>>
    /\ UNCHANGED <<stream_vars, fs_vars, kf_vars, conn_vars>>

\* detect_leader, once the rows are fetched: find_clusters, then
\* detect_following_patterns on what it returns
SeqDetectLeader ==
    /\ seq_pc = "fetch"
    /\ seq_pc' = "done"
    /\ combo_tracker' = find_clusters(seq_rows)
    /\ leader_candidates' = detect_following_patterns(combo_tracker')
    /\ UNCHANGED seq_rows
    /\ UNCHANGED <<stream_vars, fs_vars, kf_vars, conn_vars>>

\* fetch_buy_events delivers one more row; the rows come in the order of
\* (ts, trader, amount), on any mint, so the mints are first met in any
\* order
LeadRow ==
    /\ seq_pc = "fetch"
    /\ Len(seq_rows) < MaxLeadRows
    /\ \E ts \in LeadTimes, mint \in Tokens, trader \in Wallets, amount \in Amounts :
          LET row == [ts |-> ts, mint |-> mint, trader |-> trader, amount |-> amount]
          IN  /\ seq_rows # <<>> => event_le(seq_rows[Len(seq_rows)], row)
              /\ seq_rows' = Append(seq_rows, row)
    /\ UNCHANGED <<seq_pc, combo_tracker, leader_candidates>>
    /\ UNCHANGED <<stream_vars, fs_vars, kf_vars, conn_vars>>

Init == StreamInit /\ FsInit /\ KfInit /\ SeqInit /\ ConnInit

NextLead == LeadRow \/ OrderRow \/ SeqDetectLeader

\* rows of two wallets, in the same order, with timestamps on both sides
\* of the end of the cluster window
ShapeWallets == {"A", "B"}

ShapeRow ==
    /\ seq_pc = "fetch"
    /\ Len(seq_rows) < MaxShapeRows
    /\ \E ts \in SeqTimes, mint \in Tokens, trader \in ShapeWallets, amount \in Amounts :
          LET row == [ts |-> ts, mint |-> mint, trader |-> trader, amount |-> amount]
          IN  /\ seq_rows # <<>> => event_le(seq_rows[Len(seq_rows)], row)
              /\ seq_rows' = Append(seq_rows, row)
    /\ UNCHANGED <<seq_pc, combo_tracker, leader_candidates>>
    /\ UNCHANGED <<stream_vars, fs_vars, kf_vars, conn_vars>>

NextShape == ShapeRow \/ SeqFindClusters

SpecShape == Init /\ [][NextShape]_vars

SpecLead == Init /\ [][NextLead]_vars

NextSeq == SeqRow \/ SeqFindClusters

SpecSeq == Init /\ [][NextSeq]_vars

NextKf == KfRow \/ KfDetect

SpecKf == Init /\ [][NextKf]_vars

NextFast == FsTrade

SpecFast == Init /\ [][NextFast]_vars

\* the same trades ten seconds apart, so that one buy is followed by
\* several sells inside its window; the lookup times out or finds a
\* market cap below or above the ceiling
CacheDeltas == {10}
CacheOutcomes == {o \in FetchOutcomes : o.why = "timeout" \/ o.fdv \in {400000, 600000}}

CacheTrade ==
    /\ fs_n < MaxCacheEvents
    /\ \E d \in CacheDeltas, buyer \in FsWallets, mint \in Tokens, is_sell \in BOOLEAN,
          outcome \in CacheOutcomes :
            ProcessTrade(d, buyer, mint, is_sell, outcome)

NextCache == CacheTrade

SpecCache == Init /\ [][NextCache]_vars

Next == StreamBuy

Spec == Init /\ [][Next]_vars

VoteBuy ==
    /\ n_events < MaxVoteEvents
    /\ \E d \in VoteDeltas, buyer \in Wallets, mint \in Tokens :
          fresh_in_tx(d, buyer, mint) /\ ProcessBuy(d, buyer, mint)

NextVote == VoteBuy

SpecVote == Init /\ [][NextVote]_vars

(***************************************************************************)
(* run(), one whole transaction: now_utc is read once, then the loop       *)
(* `for buyer, mint, amount in buys` processes the buys of the             *)
(* transaction in the order detect_buyers lists them.  The transactions    *)
(* drawn here are bundles: every wallet of Bundles' sequences buys the     *)
(* same mint.                                                              *)
(***************************************************************************)
RECURSIVE tx_effect(_, _, _, _)
tx_effect(S, t, owners, mint) ==
    IF owners = <<>> THEN S
    ELSE tx_effect(buy_effect(S, t, Head(owners), mint), t, Tail(owners), mint)

ProcessTx(d, owners, mint) ==
    LET S == tx_effect(Stores, now + d, owners, mint)
    IN  /\ conn.status = "streaming"
        /\ UNCHANGED <<fs_vars, kf_vars, seq_vars, conn_vars>>
        /\ now' = now + d
        /\ n_events' = n_events + 1
        /\ recent_buys' = S.recent_buys
        /\ group_sightings' = S.group_sightings
        /\ group_first_buyer' = S.group_first_buyer
        /\ last_logged_leader' = S.last_logged_leader
        /\ alerts' = S.alerts
        /\ step' = S.step

\* the orders in which the wallets appear in a bundle: detect_buyers lists
\* them as the balance records of the transaction do
Bundles == {<<"A", "B", "C">>, <<"C", "B", "A">>}

CoolDeltas == {10, 300, 310}

BundleTx ==
    /\ n_events < MaxCoolTxs
    /\ \E d \in CoolDeltas, owners \in Bundles, mint \in Tokens :
          ProcessTx(d, owners, mint)

NextCool == BundleTx

SpecCool == Init /\ [][NextCool]_vars

(***************************************************************************)
(* The except clauses of the two run() loops.  An exception leaves the     *)
(* `for update in stream` loop between two transactions; RpcError and any  *)
(* other Exception print, sleep and go round `while True` to Subscribe     *)
(* again, KeyboardInterrupt breaks out of the loop for good.               *)
(***************************************************************************)
StreamErrors == {"RpcError", "KeyboardInterrupt", "Exception"}

StreamError ==
    /\ conn.status = "streaming"
    /\ \E e \in StreamErrors : conn' = [conn EXCEPT !.status = e]
    /\ UNCHANGED <<stream_vars, fs_vars, kf_vars, seq_vars, fs_conn>>

\* as StreamResubscribe, with the stores set up anew for the new stream
StreamResubscribe_reset ==
    /\ conn.status \in {"RpcError", "Exception"}
    /\ conn.subscribes < MaxSubscribes
    /\ conn' = [status |-> "streaming", subscribes |-> conn.subscribes + 1,
                seen |-> n_events]
    /\ recent_buys' = <<>>
    /\ group_sightings' = EmptyDict
    /\ group_first_buyer' = EmptyDict
    /\ last_logged_leader' = EmptyDict
    /\ UNCHANGED <<now, alerts, step, n_events>>
    /\ UNCHANGED <<fs_vars, kf_vars, seq_vars, fs_conn>>

\* time.sleep(5), then stub.Subscribe again; `seen` notes how many
\* transactions had been processed by then
StreamResubscribe ==
    /\ conn.status \in {"RpcError", "Exception"}
    /\ conn.subscribes < MaxSubscribes
    /\ conn' = [status |-> "streaming", subscribes |-> conn.subscribes + 1,
                seen |-> n_events]
    /\ UNCHANGED <<stream_vars, fs_vars, kf_vars, seq_vars, fs_conn>>

FsStreamError ==
    /\ fs_conn.status = "streaming"
    /\ \E e \in StreamErrors : fs_conn' = [fs_conn EXCEPT !.status = e]
    /\ UNCHANGED <<stream_vars, fs_vars, kf_vars, seq_vars, conn>>

FsStreamResubscribe ==
    /\ fs_conn.status \in {"RpcError", "Exception"}
    /\ fs_conn.subscribes < MaxSubscribes
    /\ fs_conn' = [status |-> "streaming", subscribes |-> fs_conn.subscribes + 1,
                   seen |-> fs_n]
    /\ UNCHANGED <<stream_vars, fs_vars, kf_vars, seq_vars, conn>>

\* the traffic between the failures: bundles of the three wallets on
\* either token, and wallet A trading T1
RcDeltas == {10}
RcOutcomes == {o \in FetchOutcomes : o.why = "timeout" \/ o.fdv = 400000}

RcTx ==
    /\ n_events < MaxRcTxs
    /\ \E d \in RcDeltas, mint \in Tokens : ProcessTx(d, <<"A", "B", "C">>, mint)

RcTrade ==
    /\ fs_n < MaxRcTrades
    /\ \E d \in RcDeltas, is_sell \in BOOLEAN, outcome \in RcOutcomes :
          ProcessTrade(d, "A", "T1", is_sell, outcome)

NextReconnect ==
    \/ RcTx
    \/ RcTrade
    \/ StreamError
    \/ StreamResubscribe
    \/ FsStreamError
    \/ FsStreamResubscribe

SpecReconnect == Init /\ [][NextReconnect]_vars

(***************************************************************************)
(* Properties of the streaming group detector                              *)
(***************************************************************************)
Horizon == HISTORY_MINUTES * 60

\* C1: immediately after prune_old_events(now) every event still in the
\* buffer has timestamp >= now - H and every event that was removed had
\* timestamp < now - H.
C1_WindowCorrect ==
    step.kind # "none" =>
        /\ \A i \in DOMAIN recent_buys : recent_buys[i].timestamp >= now - Horizon
        /\ \A i \in DOMAIN step.pruned : step.pruned[i].timestamp < now - Horizon

\* the prune removed something and kept an event lying exactly on the horizon
C1_Witness ==
    /\ step.kind # "none"
    /\ step.pruned # <<>>
    /\ \E i \in DOMAIN recent_buys : recent_buys[i].timestamp = now - Horizon

\* wallets other than the new event's that have a buy on its token inside
\* [now - window, now], read off the buffer as it is after the step
OthersInWindow(e) ==
    {recent_buys[i].buyer : i \in {j \in DOMAIN recent_buys :
        /\ recent_buys[j].token_mint = e.token_mint
        /\ recent_buys[j].buyer # e.buyer
        /\ recent_buys[j].timestamp >= now - TIME_WINDOW_SECONDS
        /\ recent_buys[j].timestamp <= now}}

\* C2: a group is formed iff the number of DISTINCT other wallets with a buy
\* on the token inside the window is >= minGroupSize - 1, and every recorded
\* group contains at least minGroupSize distinct wallets.
C2_GroupFormation ==
    /\ step.kind # "none" =>
          (step.kind = "group" <=>
              Cardinality(OthersInWindow(step.event)) >= MIN_GROUP_SIZE - 1)
    /\ \A g \in DOMAIN group_sightings : Cardinality(g) >= MIN_GROUP_SIZE

\* the votes of the group evaluated in the last step
StepVotes == group_first_buyer[step.group]
StepSightings == group_sightings[step.group]
VotesOf(w) == Cardinality({i \in DOMAIN StepVotes : StepVotes[i] = w})
AlertedNow(w) ==
    /\ step.outcome = "alert"
    /\ alerts # <<>>
    /\ alerts[Len(alerts)].leader = w
    /\ alerts[Len(alerts)].at = now

\* C3: no alert is emitted for a wallet whose vote count is at most half of
\* the group's total votes (exactly 50% is never promoted).
C3_StrictMajority ==
    step.kind = "group" =>
        \A w \in Wallets : 2 * VotesOf(w) <= Len(StepVotes) => ~AlertedNow(w)

\* a group was evaluated whose leading wallet holds exactly half of the votes
C3_Witness ==
    /\ step.kind = "group"
    /\ Cardinality(step.group) >= MIN_GROUP_SIZE
    /\ Cardinality(Range(StepSightings)) >= MIN_GROUP_SIGHTINGS
    /\ \E w \in Wallets : 2 * VotesOf(w) = Len(StepVotes)
    /\ \A w \in Wallets : 2 * VotesOf(w) <= Len(StepVotes)
    /\ step.outcome = "no_majority"

\* the cooldown gate holds an alert of w younger than the cooldown period,
\* and it was not stamped in this step
SuppressedByGate(w) ==
    /\ step.outcome # "alert"
    /\ w \in DOMAIN last_logged_leader
    /\ now - last_logged_leader[w] <= LEADER_LOG_COOLDOWN_SECONDS

\* C4 as stated: whenever a group is evaluated after gaining a sighting and
\* some wallet holds strictly more than 50% of its votes, an alert for that
\* wallet is emitted unless the cooldown gate suppresses it.
C4_MajorityAlwaysAlerts ==
    step.kind = "group" =>
        \A w \in Wallets : 2 * VotesOf(w) > Len(StepVotes)
            => AlertedNow(w) \/ SuppressedByGate(w)

\* C4 amended: the same, for a group whose sightings cover at least
\* MIN_GROUP_SIGHTINGS distinct tokens.
C4_MajorityAlertsWithSightings ==
    (step.kind = "group" /\ Cardinality(Range(StepSightings)) >= MIN_GROUP_SIGHTINGS) =>
        \A w \in Wallets : 2 * VotesOf(w) > Len(StepVotes)
            => AlertedNow(w) \/ SuppressedByGate(w)

\* a group with enough sightings and a majority wallet raised an alert
C4_Witness ==
    /\ step.kind = "group"
    /\ Cardinality(step.group) >= MIN_GROUP_SIZE
    /\ Cardinality(Range(StepSightings)) >= MIN_GROUP_SIGHTINGS
    /\ \E w \in Wallets : 2 * VotesOf(w) > Len(StepVotes) /\ AlertedNow(w)

C9_FirstBuyerFrame ==
    [][step'.kind = "group" =>
        LET e == recent_buys'[Len(recent_buys')]
            g == step'.group
        IN  /\ e.buyer \in g
            /\ DOMAIN group_sightings' = DOMAIN group_sightings \cup {g}
            /\ DOMAIN group_first_buyer' = DOMAIN group_first_buyer \cup {g}
            /\ group_sightings'[g] = ListAt(group_sightings, g) \o <<e.token_mint>>
            /\ group_first_buyer'[g] = ListAt(group_first_buyer, g) \o <<e.buyer>>
            /\ \A h \in DOMAIN group_sightings' \ {g} :
                  group_sightings'[h] = group_sightings[h]
            /\ \A h \in DOMAIN group_first_buyer' \ {g} :
                  group_first_buyer'[h] = group_first_buyer[h]
    ]_vars

\* buys by A, B, C on one token inside the window: {A,B,C} forms on C's
\* arrival with first buyer C
C9_Witness ==
    /\ step.kind = "group"
    /\ step.group = {"A", "B", "C"}
    /\ Len(recent_buys) = 3
    /\ recent_buys[1].buyer = "A" /\ recent_buys[2].buyer = "B"
    /\ recent_buys[3].buyer = "C"
    /\ group_first_buyer[{"A", "B", "C"}] = <<"C">>
    /\ group_sightings[{"A", "B", "C"}] = <<recent_buys[3].token_mint>>

\* C10: every wallet of a group formed on event e, other than e's own, has
\* in the buffer a buy on exactly e.token_mint with timestamp in
\* [now - window, now].
C10_NoTokenConflation ==
    step.kind = "group" =>
        \A w \in step.group \ {step.event.buyer} : w \in OthersInWindow(step.event)

\* a group formed while the window also held a buy on another token
C10_Witness ==
    /\ step.kind = "group"
    /\ \E i \in DOMAIN recent_buys :
          /\ recent_buys[i].token_mint # step.event.token_mint
          /\ recent_buys[i].buyer # step.event.buyer
          /\ recent_buys[i].timestamp >= now - TIME_WINDOW_SECONDS


(***************************************************************************)
(* Properties of the fast-sell detector                                    *)
(***************************************************************************)
\* the prune of strategy2 keeps the same window as that of the group detector
FsWindowCorrect ==
    fs_step.kind # "none" =>
        /\ \A i \in DOMAIN recent_events :
              recent_events[i].timestamp >= fs_now - FS_HISTORY_MINUTES * 60
        /\ \A i \in DOMAIN fs_step.pruned :
              fs_step.pruned[i].timestamp < fs_now - FS_HISTORY_MINUTES * 60

\* C6: when fetch_market_cap fails for a mint, analyze_fast_traders emits no
\* fast-sell alert for that sell event.
C6_FailsClosed ==
    (fs_step.kind = "matched" /\ fs_step.fetch.why \in FetchFailures) =>
        /\ ~fs_step.alerted
        /\ \A i \in DOMAIN fs_alerts :
              ~(/\ fs_alerts[i].at = fs_now
                /\ fs_alerts[i].buyer = fs_step.event.buyer
                /\ fs_alerts[i].mint = fs_step.event.mint)

(***************************************************************************)
(* Properties of the round-trip detector                                   *)
(***************************************************************************)
\* row i is a buy and row j a sell of the same wallet on the same token,
\* with 0 < t_sell - t_buy <= max_hold_time_sec
RoundTrip(i, j) ==
    /\ kf_rows[i].trader = kf_rows[j].trader
    /\ kf_rows[i].mint = kf_rows[j].mint
    /\ kf_rows[i].tx_type = "buy" /\ kf_rows[j].tx_type = "sell"
    /\ 0 < kf_rows[j].ts - kf_rows[i].ts
    /\ kf_rows[j].ts - kf_rows[i].ts <= max_hold_time_sec

\* buys of w on m that have a qualifying sell
MatchedBuys(w, m) ==
    {i \in DOMAIN kf_rows :
        /\ kf_rows[i].trader = w /\ kf_rows[i].mint = m
        /\ \E j \in DOMAIN kf_rows : RoundTrip(i, j)}

RoundTripTokens(w) == {m \in Tokens : MatchedBuys(w, m) # {}}

\* C7: detect_leader returns wallet w iff w has a round trip on at least 2
\* distinct tokens; the token list returned for w is exactly that set of
\* tokens; each buy contributes at most one match.
C7_RoundTrip ==
    kf_pc = "done" =>
        \A w \in KfWallets :
            /\ w \in DOMAIN kf_result <=> Cardinality(RoundTripTokens(w)) >= 2
            /\ w \in DOMAIN kf_result => kf_result[w] = RoundTripTokens(w)
            /\ \A m \in Tokens :
                  Cardinality({k \in DOMAIN ListAt(kf_suspicious, w) :
                                  kf_suspicious[w][k] = m})
                     = Cardinality(MatchedBuys(w, m))

\* a wallet is returned with two tokens, one of its round trips lasting
\* exactly max_hold_time_sec
C7_Witness ==
    /\ kf_pc = "done"
    /\ \E w \in KfWallets :
          /\ w \in DOMAIN kf_result
          /\ Cardinality(kf_result[w]) = 2
          /\ \E i, j \in DOMAIN kf_rows :
                RoundTrip(i, j) /\ kf_rows[j].ts - kf_rows[i].ts = max_hold_time_sec

(***************************************************************************)
(* Properties of the sequence cluster detector                             *)
(***************************************************************************)
\* C8: every cluster that find_clusters retains has pairwise distinct
\* wallets across all its entries, hence at least 3 distinct participants
\* and a participant key without a repeated wallet.
C8_DistinctWallets ==
    \A k \in DOMAIN combo_tracker :
        LET c == combo_tracker[k].cluster
            key == combo_tracker[k].traders
        IN  /\ \A i, j \in DOMAIN c : i # j => c[i].trader # c[j].trader
            /\ Cardinality({c[i].trader : i \in DOMAIN c}) >= 3
            /\ \A i, j \in DOMAIN key : i # j => key[i] # key[j]

\* the trade just processed: the newest entry of the deque
FsEvent == recent_events'[Len(recent_events')]

\* the wallet's history, as it was before the trade, holds a buy on the
\* mint at most FS_TIME_WINDOW_SECONDS and more than 0 seconds before
HasPriorQuickBuy(e) ==
    \E i \in DOMAIN ListAt(buyer_histories, e.buyer) :
        LET b == buyer_histories[e.buyer][i]
        IN  /\ b.mint = e.mint
            /\ ~b.is_sell
            /\ 0 < e.timestamp - b.timestamp
            /\ e.timestamp - b.timestamp <= FS_TIME_WINDOW_SECONDS

EarlierAlerts(w) ==
    {i \in DOMAIN alerts :
        /\ alerts[i].leader = w
        /\ ~(i = Len(alerts) /\ step.outcome = "alert")}

\* the last buy formed a group with enough sightings in which w holds a
\* strict majority of the votes
MajorityQualified(w) ==
    /\ step.kind = "group"
    /\ Cardinality(Range(StepSightings)) >= MIN_GROUP_SIGHTINGS
    /\ 2 * VotesOf(w) > Len(StepVotes)

\* C13 as stated: a majority-qualified attribution for w is suppressed only
\* if w's last alert is younger than cooldownPeriod; with no prior alert, or
\* with exactly cooldownPeriod or more elapsed since it, the alert is
\* emitted.
C13_CooldownBoundary ==
    \A w \in Wallets :
        MajorityQualified(w) =>
            (AlertedNow(w) <=>
                \A i \in EarlierAlerts(w) :
                    now - alerts[i].at >= LEADER_LOG_COOLDOWN_SECONDS)

\* C13 amended: the attribution is suppressed iff w's last alert is at most
\* cooldownPeriod old; the alert is emitted with no prior alert or with
\* strictly more than cooldownPeriod elapsed.
C13_CooldownStrict ==
    \A w \in Wallets :
        MajorityQualified(w) =>
            (AlertedNow(w) <=>
                \A i \in EarlierAlerts(w) :
                    now - alerts[i].at > LEADER_LOG_COOLDOWN_SECONDS)

\* a majority-qualified attribution arrived exactly cooldownPeriod after
\* the wallet's last alert and was suppressed
C13_Witness ==
    /\ step.kind = "group"
    /\ Cardinality(step.group) >= MIN_GROUP_SIZE
    /\ step.outcome = "suppressed"
    /\ MajorityQualified(step.leader)
    /\ EarlierAlerts(step.leader) # {}
    /\ \A i \in EarlierAlerts(step.leader) :
          now - alerts[i].at >= LEADER_LOG_COOLDOWN_SECONDS

\* the alerts logged by the step
NewAlerts == SubSeq(alerts', Len(alerts) + 1, Len(alerts'))

\* C14: the gate entry of a wallet w changes only in a step that emits an
\* alert for w, and is then set to the current time; a suppressed
\* attribution, a failed vote and every other event leave the map as it
\* was, and no entry is removed.  So every entry is the time of the last
\* emitted alert of its wallet: suppressed attributions do not extend the
\* suppression.
C14_GateFrame ==
    [][/\ Len(alerts') >= Len(alerts)
       /\ SubSeq(alerts', 1, Len(alerts)) = alerts
       /\ DOMAIN last_logged_leader \subseteq DOMAIN last_logged_leader'
       /\ \A w \in Wallets :
             IF \E i \in DOMAIN NewAlerts : NewAlerts[i].leader = w
             THEN /\ w \in DOMAIN last_logged_leader'
                  /\ last_logged_leader'[w] = now'
             ELSE /\ w \in DOMAIN last_logged_leader' <=> w \in DOMAIN last_logged_leader
                  /\ w \in DOMAIN last_logged_leader
                        => last_logged_leader'[w] = last_logged_leader[w]
       /\ \A w \in DOMAIN last_logged_leader' :
             /\ \E i \in DOMAIN alerts' :
                   alerts'[i].leader = w /\ alerts'[i].at = last_logged_leader'[w]
             /\ \A i \in DOMAIN alerts' :
                   alerts'[i].leader = w => alerts'[i].at <= last_logged_leader'[w]
    ]_vars

\* an attribution was suppressed and the gate still holds the time of the
\* wallet's alert, which lies in the past
C14_Witness ==
    /\ step.kind = "group"
    /\ Cardinality(step.group) >= MIN_GROUP_SIZE
    /\ step.outcome = "suppressed"
    /\ last_logged_leader[step.leader] < now
    /\ alerts[Len(alerts)].at = last_logged_leader[step.leader]

\* C12: when a stream fails (RpcError or any other exception) and the loop
\* subscribes again, the event buffers, the group sighting and vote
\* histories, the per-wallet histories, the market-cap cache and the
\* cooldown map are as they were: only the transport is restarted.
C12_ReconnectFrame ==
    [][/\ (conn.status # "streaming" \/ conn'.status # "streaming")
            => UNCHANGED <<recent_buys, group_sightings, group_first_buyer,
                           last_logged_leader>>
       /\ (fs_conn.status # "streaming" \/ fs_conn'.status # "streaming")
            => UNCHANGED <<recent_events, buyer_histories, token_market_caps>>
    ]_vars

\* both loops have subscribed again, each with all of its stores filled
\* by then, and nothing was processed since
C12_Witness ==
    /\ conn.status = "streaming" /\ conn.subscribes > 1
    /\ conn.seen = n_events
    /\ recent_buys # <<>>
    /\ group_sightings # EmptyDict
    /\ group_first_buyer # EmptyDict
    /\ last_logged_leader # EmptyDict
    /\ fs_conn.status = "streaming" /\ fs_conn.subscribes > 1
    /\ fs_conn.seen = fs_n
    /\ recent_events # <<>>
    /\ buyer_histories # EmptyDict
    /\ token_market_caps # EmptyDict

\* C17 as stated: once fetch_market_cap has been called for a mint and its
\* result stored, every later qualifying sell on that mint reuses the
\* stored value and fetches no more: the lookup is called at most once per
\* mint.
C17_FetchOnce == \A m \in DOMAIN fetch_log : Len(fetch_log[m]) <= 1

\* C17 amended: once a lookup has returned a non-zero market cap for a mint
\* and it is stored, every later qualifying sell on that mint reuses it and
\* fetches no more; a lookup that returned 0 is repeated by the next
\* qualifying sell.  So only the last lookup of a mint can be non-zero, the
\* cache holds its result, and a qualifying sell skips the lookup exactly
\* when the cache held a non-zero value.
C17_FetchUntilNonZero ==
    /\ \A m \in DOMAIN fetch_log :
          /\ \A i \in 1..(Len(fetch_log[m]) - 1) : fetch_log[m][i] = 0
          /\ m \in DOMAIN token_market_caps
          /\ token_market_caps[m] = fetch_log[m][Len(fetch_log[m])]
    /\ DOMAIN token_market_caps = DOMAIN fetch_log
    /\ fs_step.kind = "matched" =>
          /\ fs_step.cap = token_market_caps[fs_step.event.mint]
          /\ fs_step.fetch = NotFetched =>
                fs_step.cap # 0

\* a qualifying sell reused the market cap that the second lookup of its
\* mint had returned, the first one having failed
C17_Witness ==
    /\ fs_step.kind = "matched"
    /\ fs_step.fetch = NotFetched
    /\ Len(fetch_log[fs_step.event.mint]) = 2
    /\ fetch_log[fs_step.event.mint][1] = 0
    /\ fetch_log[fs_step.event.mint][2] = fs_step.cap

\* positions of the buffer that a scan of the whole buffer would collect
\* for the last buy: inside the window, same token, another wallet
InWindowMatches ==
    {i \in DOMAIN recent_buys :
        /\ recent_buys[i].timestamp >= now - TIME_WINDOW_SECONDS
        /\ recent_buys[i].token_mint = step.event.token_mint
        /\ recent_buys[i].buyer # step.event.buyer}

\* their wallets, newest first
FullScan ==
    [k \in 1..Cardinality(InWindowMatches) |->
        recent_buys[CHOOSE i \in InWindowMatches :
                       Cardinality({j \in InWindowMatches : j >= i}) = k].buyer]

\* C19: the buffer is in non-decreasing timestamp order in every reachable
\* state, so the backward scan that breaks at the first event older than
\* the window collects exactly the matches of a scan of the whole buffer
\* filtered by timestamp >= now - window.
C19_EarlyExitScan ==
    /\ \A i, j \in DOMAIN recent_buys :
          i <= j => recent_buys[i].timestamp <= recent_buys[j].timestamp
    /\ step.kind # "none" => step.matched = FullScan

\* the scan collected a match and stopped before an older event on the
\* same token by another wallet, which is still in the buffer
C19_Witness ==
    /\ step.kind # "none"
    /\ step.matched # <<>>
    /\ \E i \in DOMAIN recent_buys :
          /\ recent_buys[i].timestamp < now - TIME_WINDOW_SECONDS
          /\ recent_buys[i].token_mint = step.event.token_mint
          /\ recent_buys[i].buyer # step.event.buyer

\* C15: every leader candidate record that detect_following_patterns
\* produces is supported by clusters from at least two distinct token
\* mints; clusters of different seed events of one token never make a
\* participant set eligible by themselves.
C15_TwoTokenSupport ==
    \A i \in DOMAIN leader_candidates :
        Cardinality(Range(leader_candidates[i].mints)) >= 2

\* the rows with the rows at positions i and i + 1 exchanged
SwapRows(rows, i) ==
    [k \in DOMAIN rows |->
        IF k = i THEN rows[i + 1] ELSE IF k = i + 1 THEN rows[i] ELSE rows[k]]

\* C16: the set of leader wallets that detect_leader returns is the same
\* for every permutation of the input rows, also when first-position
\* counts tie.  Every permutation is a chain of exchanges of neighbours, so
\* the set is the same after each such exchange.
C16_OrderIndependence ==
    seq_pc = "done" =>
        \A i \in 1..(Len(seq_rows) - 1) :
            leaders_found(SwapRows(seq_rows, i))
               = {leader_candidates[k].leader : k \in DOMAIN leader_candidates}

\* the participant keys of the retained clusters, the positions in
\* combo_tracker of the clusters of one key, and the k-th of them
ComboKeys == {combo_tracker[i].traders : i \in DOMAIN combo_tracker}
KeyClusters(key) == {i \in DOMAIN combo_tracker : combo_tracker[i].traders = key}
NthCluster(key, k) ==
    CHOOSE i \in KeyClusters(key) :
        Cardinality({j \in KeyClusters(key) : j <= i}) = k

\* the wallets of a cluster in its order, and how many clusters of a key
\* start with wallet w
WalletOrder(i) ==
    [k \in DOMAIN combo_tracker[i].cluster |-> combo_tracker[i].cluster[k].trader]
FirstCount(key, w) ==
    Cardinality({i \in KeyClusters(key) : combo_tracker[i].cluster[1].trader = w})

\* the candidate records reported for a key
RecordsOf(key) ==
    {i \in DOMAIN leader_candidates : leader_candidates[i].participants = key}

\* C18: detect_following_patterns reports a candidate for a participant key
\* iff the key has at least two clusters and their wallet sequences are not
\* all identical; the candidate is a wallet whose first-position count
\* among those clusters is maximal, and the evidence lists exactly those
\* clusters' mints and sequences.
C18_CandidateSelection ==
    seq_pc = "done" =>
        /\ \A i \in DOMAIN leader_candidates :
              leader_candidates[i].participants \in ComboKeys
        /\ \A key \in ComboKeys :
              /\ Cardinality(RecordsOf(key)) <= 1
              /\ RecordsOf(key) # {} <=>
                    /\ Cardinality(KeyClusters(key)) >= 2
                    /\ Cardinality({WalletOrder(i) : i \in KeyClusters(key)}) > 1
              /\ \A r \in RecordsOf(key) :
                    LET rec == leader_candidates[r]
                    IN  /\ FirstCount(key, rec.leader) >= 1
                        /\ \A w \in Wallets :
                              FirstCount(key, w) <= FirstCount(key, rec.leader)
                        /\ Len(rec.mints) = Cardinality(KeyClusters(key))
                        /\ Len(rec.sequences) = Cardinality(KeyClusters(key))
                        /\ \A k \in DOMAIN rec.mints :
                              /\ rec.mints[k] = combo_tracker[NthCluster(key, k)].mint
                              /\ rec.sequences[k] = WalletOrder(NthCluster(key, k))

\* a candidate was reported whose wallet starts more clusters of the key
\* than the wallet that starts the first of them
C18_Witness ==
    /\ seq_pc = "done"
    /\ \E i \in DOMAIN leader_candidates :
          LET rec == leader_candidates[i]
          IN  /\ rec.sequences[1][1] # rec.leader
              /\ FirstCount(rec.participants, rec.sequences[1][1])
                    < FirstCount(rec.participants, rec.leader)

\* row r stands after the event e when the events of a token are sorted
\* as tuples (ts, trader, amount)
SortsAfter(e, r) ==
    \/ r.ts > e.ts
    \/ /\ r.ts = e.ts
       /\ \/ Ord(r.trader) > Ord(e.trader)
          \/ r.trader = e.trader /\ r.amount > e.amount

\* the rows on a token that follow the seed, lie within time_window_sec of
\* it and carry another amount
Followers(mint, seed) ==
    {i \in DOMAIN seq_rows :
        /\ seq_rows[i].mint = mint
        /\ SortsAfter(seed, seq_rows[i])
        /\ seq_rows[i].ts - seed.ts <= time_window_sec
        /\ seq_rows[i].amount # seed.amount}

\* C20: every retained cluster has at least three entries, all of them
\* rows of one token, in non-decreasing timestamp order starting with the
\* seed; every other entry lies at most time_window_sec after the seed and
\* has an amount different from the seed's.  Rows with the seed's amount
\* inside the window are skipped without ending the cluster and the first
\* row beyond the window ends it: the cluster holds every follower of the
\* seed, and nothing else.
C20_ClusterShape ==
    \A c \in DOMAIN combo_tracker :
        LET cl   == combo_tracker[c].cluster
            mint == combo_tracker[c].mint
            seed == cl[1]
        IN  /\ Len(cl) >= 3
            /\ \A k \in DOMAIN cl :
                  \E i \in DOMAIN seq_rows :
                      /\ seq_rows[i].mint = mint
                      /\ seq_rows[i].ts = cl[k].ts
                      /\ seq_rows[i].trader = cl[k].trader
                      /\ seq_rows[i].amount = cl[k].amount
            /\ \A k, l \in DOMAIN cl : k <= l => cl[k].ts <= cl[l].ts
            /\ \A k \in 2..Len(cl) :
                  /\ cl[k].ts - seed.ts <= time_window_sec
                  /\ cl[k].amount # seed.amount
            /\ Len(cl) - 1 = Cardinality(Followers(mint, seed))

\* a retained cluster skipped a row with the seed's amount and took a
\* later row
C20_Witness ==
    /\ seq_pc = "clustered"
    /\ \E c \in DOMAIN combo_tracker :
          LET cl == combo_tracker[c].cluster
          IN  \E i \in DOMAIN seq_rows :
                  /\ seq_rows[i].mint = combo_tracker[c].mint
                  /\ SortsAfter(cl[1], seq_rows[i])
                  /\ seq_rows[i].amount = cl[1].amount
                  /\ seq_rows[i].ts < cl[Len(cl)].ts

\* the largest vote count in the group of the last buy
MaxVotes == CHOOSE n \in 0..Len(StepVotes) :
               /\ \E w \in Wallets : VotesOf(w) = n
               /\ \A w \in Wallets : VotesOf(w) <= n

\* C21: whenever analyze_group emits an alert, the alerted wallet is the
\* unique wallet with the maximum vote count in its group and is a member
\* of the group; when two wallets tie for the maximum no alert is emitted,
\* so the tie-break of max() never decides which wallet is alerted.
C21_TieBreakNeverDecides ==
    /\ \A i \in DOMAIN alerts :
          /\ alerts[i].leader \in alerts[i].group
          /\ 2 * alerts[i].votes > alerts[i].total_votes
    /\ step.kind = "group" =>
          /\ \A w \in Wallets :
                AlertedNow(w) =>
                    /\ w \in step.group
                    /\ \A u \in Wallets \ {w} : VotesOf(u) < VotesOf(w)
          /\ Cardinality({w \in Wallets : VotesOf(w) = MaxVotes}) >= 2
                => step.outcome # "alert"

\* an alert was emitted for a wallet that leads its group's votes against
\* a wallet that also holds votes
C21_Witness ==
    /\ step.kind = "group"
    /\ Cardinality(step.group) >= MIN_GROUP_SIZE
    /\ AlertedNow(step.leader)
    /\ \E u \in Wallets \ {step.leader} : VotesOf(u) > 0

\* C22: no leader alert is emitted for a group whose recorded sightings
\* cover fewer than MIN_GROUP_SIGHTINGS distinct tokens; formations of the
\* same group repeated on a single token add votes and sightings but leave
\* the group ineligible, whatever its votes.
C22_MinimumSightings ==
    /\ \A i \in DOMAIN alerts : alerts[i].tokens_seen >= MIN_GROUP_SIGHTINGS
    /\ step.kind = "group" =>
          /\ step.outcome = "alert" =>
                Cardinality(Range(StepSightings)) >= MIN_GROUP_SIGHTINGS
          /\ Cardinality(Range(StepSightings)) < MIN_GROUP_SIGHTINGS =>
                /\ step.outcome = "few_sightings"
                /\ \A i \in DOMAIN alerts : alerts[i].at < now
                                            \/ alerts[i].group # step.group

\* a group formed again on its single token, with a wallet holding a
\* strict majority of several votes, and no alert was emitted
C22_Witness ==
    /\ step.kind = "group"
    /\ Cardinality(step.group) >= MIN_GROUP_SIZE
    /\ Len(StepSightings) >= MIN_GROUP_SIGHTINGS
    /\ Cardinality(Range(StepSightings)) = 1
    /\ \E w \in Wallets : has_majority(VotesOf(w), Len(StepVotes))
    /\ step.outcome = "few_sightings"
    /\ alerts = <<>>

====
